---- MODULE Spec2Model ----
(***************************************************************************)
(* A model of pyvenue's matching engine: the order book (price levels,     *)
(* ladders, index), the event-folded EngineState, the event log, the       *)
(* Engine command handlers and Engine.replay, translated from              *)
(* src/pyvenue/engine, and the Venue of src/pyvenue/venue.py.              *)
(***************************************************************************)
EXTENDS Integers, Sequences, FiniteSets, TLC

\* ------------------------------------------------------------------ bounds
MaxPrice == 2
MaxQty == 2
MaxCmds == 2
MaxDeepCmds == 3
MaxFifoCmds == 5
MaxLedgerEvents == 4

\* --------------------------------------------------------- program values
None == -1
NoExc == "none"
sys_maxsize == 2147483647
BUY == "BUY"
SELL == "SELL"
GTC == "GTC"
IOC == "IOC"
FOK == "FOK"
ACTIVE == "ACTIVE"
CANCELED == "CANCELED"
FILLED == "FILLED"
EXPIRED == "EXPIRED"
INSTR == "BTC-USD"
OTHER_INSTR == "ETH-USD"

Sides == {BUY, SELL}
TimeInForce == {GTC, IOC, FOK}

\* book, state, log: the fields of one Engine; seq: the counter of its
\* next_meta oracle; last: the last command, the events submit returned for
\* it and the exception that left submit; ncmds: the commands submitted.
\* replayed: the engine Engine.replay built last.  twin: a second engine
\* with an oracle of its own.  venue: a Venue, its engines and its counter;
\* emitted: the events Venue.submit has returned, in emission order.
VARIABLES book, state, log, seq, last, ncmds, replayed, twin, venue, emitted

vars == <<book, state, log, seq, last, ncmds, replayed, twin, venue, emitted>>

\* ---------------------------------------------------------------- helpers
Min(a, b) == IF a <= b THEN a ELSE b
Max(a, b) == IF a >= b THEN a ELSE b

Remove(f, k) == [x \in DOMAIN f \ {k} |-> f[x]]

Put(f, k, v) == [x \in DOMAIN f \cup {k} |-> IF x = k THEN v ELSE f[x]]

\* bisect.bisect_left on a sorted list: 0-based insertion point before equals
bisect_left(a, x) == Cardinality({i \in 1..Len(a) : a[i] < x})

\* bisect.insort (insort_right): insert after the entries <= x
insort(a, x) ==
    LET k == Cardinality({i \in 1..Len(a) : a[i] <= x})
    IN  SubSeq(a, 1, k) \o <<x>> \o SubSeq(a, k + 1, Len(a))

\* list.pop(i), i 0-based
pop_at(a, i) == SubSeq(a, 1, i) \o SubSeq(a, i + 2, Len(a))

\* ------------------------------------------------------------- PriceLevel
\* a level that puts the newest order first
level_add_front(orders, order) == <<order>> \o orders

\* OrderedDict assignment: a present key keeps its position, a new key is
\* appended at the tail
level_add(orders, order) ==
    IF \E i \in 1..Len(orders) : orders[i].order_id = order.order_id
    THEN [i \in 1..Len(orders) |->
            IF orders[i].order_id = order.order_id THEN order ELSE orders[i]]
    ELSE Append(orders, order)

level_has(orders, order_id) ==
    \E i \in 1..Len(orders) : orders[i].order_id = order_id

level_cancel(orders, order_id) ==
    SelectSeq(orders, LAMBDA o : o.order_id # order_id)

\* -------------------------------------------------------------- OrderBook
EmptyBook ==
    [bids |-> << >>, asks |-> << >>, bid_prices |-> << >>,
     ask_prices |-> << >>, orders_by_id |-> << >>]

best_bid(b) ==
    IF Len(b.bid_prices) > 0 THEN b.bid_prices[Len(b.bid_prices)] ELSE None

\* best_ask reading the wrong end of the ladder
best_ask_last(b) ==
    IF Len(b.ask_prices) > 0 THEN b.ask_prices[Len(b.ask_prices)] ELSE None

best_ask(b) ==
    IF Len(b.ask_prices) > 0 THEN b.ask_prices[1] ELSE None

top_of_book(b) == <<best_bid(b), best_ask(b)>>

\* an _ensure_level that appends the new price at the end of the ladder
ensure_level_append(b, side, price_ticks) ==
    IF side = BUY
    THEN IF price_ticks \notin DOMAIN b.bids
         THEN [b EXCEPT !.bid_prices = Append(@, price_ticks),
                        !.bids = Put(@, price_ticks, << >>)]
         ELSE b
    ELSE IF price_ticks \notin DOMAIN b.asks
         THEN [b EXCEPT !.ask_prices = Append(@, price_ticks),
                        !.asks = Put(@, price_ticks, << >>)]
         ELSE b

ensure_level(b, side, price_ticks) ==
    IF side = BUY
    THEN IF price_ticks \notin DOMAIN b.bids
         THEN [b EXCEPT !.bid_prices = insort(@, price_ticks),
                        !.bids = Put(@, price_ticks, << >>)]
         ELSE b
    ELSE IF price_ticks \notin DOMAIN b.asks
         THEN [b EXCEPT !.ask_prices = insort(@, price_ticks),
                        !.asks = Put(@, price_ticks, << >>)]
         ELSE b

\* _get_level(...) is not None
has_level(b, side, price_ticks) ==
    IF side = BUY
    THEN price_ticks \in DOMAIN b.bids
    ELSE price_ticks \in DOMAIN b.asks

\* _get_level where the level exists
get_level(b, side, price_ticks) ==
    IF side = BUY THEN b.bids[price_ticks] ELSE b.asks[price_ticks]

\* result: [book, exc]; exc is the exception raised, or NoExc
remove_level_if_empty(b, side, price_ticks) ==
    IF side = BUY
    THEN IF price_ticks \in DOMAIN b.bids /\ Len(b.bids[price_ticks]) = 0
         THEN LET i == bisect_left(b.bid_prices, price_ticks)
                  b1 == [b EXCEPT !.bids = Remove(@, price_ticks)]
              IN  IF i >= Len(b.bid_prices) \/ b.bid_prices[i + 1] # price_ticks
                  THEN [book |-> b1, exc |-> "RuntimeError"]
                  ELSE [book |-> [b1 EXCEPT !.bid_prices = pop_at(@, i)],
                        exc |-> NoExc]
         ELSE [book |-> b, exc |-> NoExc]
    ELSE IF price_ticks \in DOMAIN b.asks /\ Len(b.asks[price_ticks]) = 0
         THEN LET i == bisect_left(b.ask_prices, price_ticks)
                  b1 == [b EXCEPT !.asks = Remove(@, price_ticks)]
              IN  IF i >= Len(b.ask_prices) \/ b.ask_prices[i + 1] # price_ticks
                  THEN [book |-> b1, exc |-> "RuntimeError"]
                  ELSE [book |-> [b1 EXCEPT !.ask_prices = pop_at(@, i)],
                        exc |-> NoExc]
         ELSE [book |-> b, exc |-> NoExc]

\* crosses with strict comparisons: equal prices do not match
crosses_strict(taker_side, taker_price_ticks, best_opp_price_ticks) ==
    IF taker_side = BUY
    THEN taker_price_ticks > best_opp_price_ticks
    ELSE taker_price_ticks < best_opp_price_ticks

crosses(taker_side, taker_price_ticks, best_opp_price_ticks) ==
    IF taker_side = BUY
    THEN taker_price_ticks >= best_opp_price_ticks
    ELSE taker_price_ticks <= best_opp_price_ticks

\* a _rest that appends the order to its level and writes no index entry
rest_unindexed(b, order) ==
    IF order.side = BUY
    THEN [ensure_level(b, order.side, order.price)
             EXCEPT !.bids[order.price] = level_add(@, order)]
    ELSE [ensure_level(b, order.side, order.price)
             EXCEPT !.asks[order.price] = level_add(@, order)]

\* OrderBook._rest: index the order, create/locate its level, append it
rest(b, order) ==
    LET b1 == [b EXCEPT !.orders_by_id =
                   Put(@, order.order_id, <<order.side, order.price>>)]
        b2 == ensure_level(b1, order.side, order.price)
    IN  IF order.side = BUY
        THEN [b2 EXCEPT !.bids[order.price] = level_add(@, order)]
        ELSE [b2 EXCEPT !.asks[order.price] = level_add(@, order)]

\* PriceLevel.peek_oldest on a non-empty level
peek_oldest(orders) == Head(orders)

\* PriceLevel.pop_oldest: the level without its oldest order
pop_oldest(orders) == Tail(orders)

\* the inner while loop of _match over one maker level.
\* st = [orders, orders_by_id, qty, fills]
RECURSIVE match_level(_, _)
match_level(st, best_opp_price_ticks) ==
    IF ~(st.qty > 0 /\ Len(st.orders) > 0)
    THEN st
    ELSE LET maker_order == peek_oldest(st.orders)
         IN  IF maker_order.remaining <= 0
             THEN match_level([st EXCEPT !.orders = pop_oldest(@)],
                              best_opp_price_ticks)
             ELSE LET fill_qty_lots == Min(st.qty, maker_order.remaining)
                      left == maker_order.remaining - fill_qty_lots
                      fill == [maker_order_id |-> maker_order.order_id,
                               maker_price |-> best_opp_price_ticks,
                               qty |-> fill_qty_lots]
                  IN  IF left = 0
                      THEN match_level(
                             [orders |-> pop_oldest(st.orders),
                              orders_by_id |->
                                  Remove(st.orders_by_id, maker_order.order_id),
                              qty |-> st.qty - fill_qty_lots,
                              fills |-> Append(st.fills, fill)],
                             best_opp_price_ticks)
                      ELSE match_level(
                             [orders |-> <<[maker_order EXCEPT
                                              !.remaining = left]>>
                                          \o Tail(st.orders),
                              orders_by_id |-> st.orders_by_id,
                              qty |-> st.qty - fill_qty_lots,
                              fills |-> Append(st.fills, fill)],
                             best_opp_price_ticks)

\* OrderBook._match, the outer while loop, in four steps.  Every step
\* returns [book, fills, remaining, exc].
RECURSIVE match(_, _, _, _, _)

\* a _match that returns after the first level it has matched against
match_removed_stop(taker_side, taker_price_ticks, st, r) ==
    [book |-> r.book, fills |-> st.fills, remaining |-> st.qty, exc |-> r.exc]

\* the end of an iteration: the emptied level is removed, and the loop goes on
match_removed(taker_side, taker_price_ticks, st, r) ==
    IF r.exc # NoExc
    THEN [book |-> r.book, fills |-> st.fills, remaining |-> st.qty,
          exc |-> r.exc]
    ELSE match(r.book, taker_side, taker_price_ticks, st.qty, st.fills)

\* after the inner loop: the level and the index as the fills left them
match_filled(b, taker_side, taker_price_ticks, best_opp_price_ticks, st) ==
    match_removed(taker_side, taker_price_ticks, st,
        remove_level_if_empty(
            IF taker_side = BUY
            THEN [b EXCEPT !.asks[best_opp_price_ticks] = st.orders,
                           !.orders_by_id = st.orders_by_id]
            ELSE [b EXCEPT !.bids[best_opp_price_ticks] = st.orders,
                           !.orders_by_id = st.orders_by_id],
            IF taker_side = BUY THEN SELL ELSE BUY,
            best_opp_price_ticks))

\* one iteration, given the best opposite price
match_at(b, taker_side, taker_price_ticks, taker_qty_lots, fills, best_opp) ==
    IF \/ best_opp = None
       \/ ~crosses(taker_side, taker_price_ticks, best_opp)
    THEN [book |-> b, fills |-> fills, remaining |-> taker_qty_lots,
          exc |-> NoExc]
    ELSE IF ~has_level(b, IF taker_side = BUY THEN SELL ELSE BUY,
                       best_opp)
    THEN [book |-> b, fills |-> fills, remaining |-> taker_qty_lots,
          exc |-> "RuntimeError"]
    ELSE match_filled(b, taker_side, taker_price_ticks, best_opp,
             match_level(
                 [orders |-> get_level(b, IF taker_side = BUY THEN SELL ELSE BUY,
                                       best_opp),
                  orders_by_id |-> b.orders_by_id,
                  qty |-> taker_qty_lots,
                  fills |-> fills],
                 best_opp))

match(b, taker_side, taker_price_ticks, taker_qty_lots, fills) ==
    IF taker_qty_lots <= 0
    THEN [book |-> b, fills |-> fills, remaining |-> taker_qty_lots,
          exc |-> NoExc]
    ELSE match_at(b, taker_side, taker_price_ticks, taker_qty_lots, fills,
                  IF taker_side = BUY THEN best_ask(b) ELSE best_bid(b))

\* the end of place_limit: m is what _match returned
place_limit_rest(order, m) ==
    IF m.exc # NoExc THEN m
    ELSE IF m.remaining > 0
    THEN [m EXCEPT !.book =
             rest(m.book, [order EXCEPT !.remaining = m.remaining])]
    ELSE m

\* OrderBook.place_limit(order): match, then rest whatever is left.  The
\* method takes no rest flag: callers' rest=... has no effect on the body.
place_limit(b, order) ==
    place_limit_rest(order,
        match(b, order.side, order.price, order.remaining, << >>))

\* a cancel that erases the index entry and leaves the order in its level
cancel_index_only(b, order_id) ==
    IF order_id \notin DOMAIN b.orders_by_id
    THEN [book |-> b, ok |-> FALSE, exc |-> NoExc]
    ELSE [book |-> [b EXCEPT !.orders_by_id = Remove(@, order_id)],
          ok |-> TRUE, exc |-> NoExc]

\* the end of cancel: r is what _remove_level_if_empty returned
cancel_removed(order_id, r) ==
    IF r.exc # NoExc
    THEN [book |-> r.book, ok |-> FALSE, exc |-> r.exc]
    ELSE [book |-> [r.book EXCEPT !.orders_by_id = Remove(@, order_id)],
          ok |-> TRUE, exc |-> NoExc]

\* a cancel that leaves the level it has emptied in the book
cancel_at_keep_level(b, order_id, side, price) ==
    IF ~has_level(b, side, price)
    THEN [book |-> b, ok |-> FALSE, exc |-> NoExc]
    ELSE IF ~level_has(get_level(b, side, price), order_id)
    THEN [book |-> b, ok |-> FALSE, exc |-> NoExc]
    ELSE cancel_removed(order_id,
             [book |-> IF side = BUY
                       THEN [b EXCEPT !.bids[price] = level_cancel(@, order_id)]
                       ELSE [b EXCEPT !.asks[price] = level_cancel(@, order_id)],
              exc |-> NoExc])

\* cancel, given the index entry (side, price) of the order
cancel_at(b, order_id, side, price) ==
    IF ~has_level(b, side, price)
    THEN [book |-> b, ok |-> FALSE, exc |-> NoExc]
    ELSE IF ~level_has(get_level(b, side, price), order_id)
    THEN [book |-> b, ok |-> FALSE, exc |-> NoExc]
    ELSE cancel_removed(order_id,
             remove_level_if_empty(
                 IF side = BUY
                 THEN [b EXCEPT !.bids[price] = level_cancel(@, order_id)]
                 ELSE [b EXCEPT !.asks[price] = level_cancel(@, order_id)],
                 side, price))

\* OrderBook.cancel.  result: [book, ok, exc]
cancel(b, order_id) ==
    IF order_id \notin DOMAIN b.orders_by_id
    THEN [book |-> b, ok |-> FALSE, exc |-> NoExc]
    ELSE cancel_at(b, order_id, b.orders_by_id[order_id][1],
                   b.orders_by_id[order_id][2])

\* -------------------------------------------------------------- events
\* ts_ns is the clock reading next_meta returns with seq; it is carried into
\* every event unchanged and read by nothing, so the events keep seq only.
OrderAccepted(sq, command, price) ==
    [type |-> "OrderAccepted", seq |-> sq, instrument |-> command.instrument,
     order_id |-> command.order_id, side |-> command.side, price |-> price,
     qty |-> command.qty]

OrderRejected(sq, instrument, order_id, reason) ==
    [type |-> "OrderRejected", seq |-> sq, instrument |-> instrument,
     order_id |-> order_id, reason |-> reason]

OrderCanceled(sq, command) ==
    [type |-> "OrderCanceled", seq |-> sq, instrument |-> command.instrument,
     order_id |-> command.order_id]

TradeOccurred(sq, command, fill_event) ==
    [type |-> "TradeOccurred", seq |-> sq, instrument |-> command.instrument,
     taker_order_id |-> command.order_id,
     maker_order_id |-> fill_event.maker_order_id,
     qty |-> fill_event.qty, price |-> fill_event.maker_price]

OrderRested(sq, command, remaining) ==
    [type |-> "OrderRested", seq |-> sq, instrument |-> command.instrument,
     order_id |-> command.order_id, side |-> command.side,
     price |-> command.price, qty |-> remaining]

OrderExpired(sq, command, remaining, reason) ==
    [type |-> "OrderExpired", seq |-> sq, instrument |-> command.instrument,
     order_id |-> command.order_id, qty |-> remaining, reason |-> reason]

TopOfBookChanged(sq, instrument, b) ==
    [type |-> "TopOfBookChanged", seq |-> sq, instrument |-> instrument,
     best_bid_ticks |-> best_bid(b), best_ask_ticks |-> best_ask(b)]

\* ------------------------------------------------------------ EngineState
EmptyState == [orders |-> << >>, accounts |-> << >>, accounts_held |-> << >>]

apply_order_accepted(st, event) ==
    [st EXCEPT !.orders = Put(@, event.order_id,
        [instrument |-> event.instrument, order_id |-> event.order_id,
         side |-> event.side, price |-> event.price, qty |-> event.qty,
         remaining |-> event.qty, status |-> ACTIVE])]

apply_order_canceled(st, event) ==
    IF event.order_id \in DOMAIN st.orders
    THEN [st EXCEPT !.orders[event.order_id].status = CANCELED]
    ELSE st

\* one iteration of the loop over (taker_order_id, maker_order_id)
apply_trade_to(st, order_id, event) ==
    LET record == st.orders[order_id]
        new_remaining == record.remaining - event.qty
        remaining == Max(0, new_remaining)
    IN  [st EXCEPT !.orders[order_id] =
            [record EXCEPT !.remaining = remaining,
                           !.status = IF remaining = 0 /\ record.status = ACTIVE
                                      THEN FILLED ELSE record.status]]

\* a fold of TradeOccurred that updates the taker's record only
apply_trade_taker_only(st, event) ==
    IF event.taker_order_id \notin DOMAIN st.orders THEN st
    ELSE apply_trade_to(st, event.taker_order_id, event)

\* the loop returns at the first id without a record
apply_trade_occurred(st, event) ==
    IF event.taker_order_id \notin DOMAIN st.orders THEN st
    ELSE LET st1 == apply_trade_to(st, event.taker_order_id, event)
         IN  IF event.maker_order_id \notin DOMAIN st1.orders THEN st1
             ELSE apply_trade_to(st1, event.maker_order_id, event)

apply_order_expired(st, event) ==
    IF event.order_id \in DOMAIN st.orders
    THEN [st EXCEPT !.orders[event.order_id].status = EXPIRED]
    ELSE st

\* FundsCredited: available is set to the amount and held to 0
apply_funds_credited(st, event) ==
    LET a == event.account_id
        avail == IF a \in DOMAIN st.accounts THEN st.accounts[a] ELSE << >>
        held == IF a \in DOMAIN st.accounts_held
                THEN st.accounts_held[a] ELSE << >>
    IN  [st EXCEPT
            !.accounts = Put(@, a, Put(avail, event.asset, event.amount)),
            !.accounts_held = Put(@, a, Put(held, event.asset, 0))]

\* the three checks of apply(FundsReserved), each of which raises ValueError
funds_reserved_raises(st, event) ==
    \/ event.account_id \notin DOMAIN st.accounts
    \/ event.asset \notin DOMAIN st.accounts[event.account_id]
    \/ st.accounts[event.account_id][event.asset] < event.amount

\* a FundsReserved that moves the amount whatever is available
apply_funds_reserved_unchecked(st, event) ==
    LET a == event.account_id
        avail == IF a \in DOMAIN st.accounts THEN st.accounts[a] ELSE << >>
        held == IF a \in DOMAIN st.accounts_held
                THEN st.accounts_held[a] ELSE << >>
        was == IF event.asset \in DOMAIN avail THEN avail[event.asset] ELSE 0
        had == IF event.asset \in DOMAIN held THEN held[event.asset] ELSE 0
    IN  [st EXCEPT
            !.accounts = Put(@, a, Put(avail, event.asset, was - event.amount)),
            !.accounts_held =
                Put(@, a, Put(held, event.asset, had + event.amount))]

\* FundsReserved: the state after the call; a raise comes before any change
apply_funds_reserved(st, event) ==
    IF funds_reserved_raises(st, event) THEN st
    ELSE LET a == event.account_id
             held == IF a \in DOMAIN st.accounts_held
                     THEN st.accounts_held[a] ELSE << >>
             had == IF event.asset \in DOMAIN held
                    THEN held[event.asset] ELSE 0
         IN  [st EXCEPT
                 !.accounts[a][event.asset] = @ - event.amount,
                 !.accounts_held =
                     Put(@, a, Put(held, event.asset, had + event.amount))]

\* the checks of apply(FundsReleased) on the held balance
funds_released_raises_held(st, event) ==
    \/ event.account_id \notin DOMAIN st.accounts_held
    \/ event.asset \notin DOMAIN st.accounts_held[event.account_id]
    \/ st.accounts_held[event.account_id][event.asset] < event.amount

\* the checks of apply(FundsReleased) on the available balance, made after
\* the held balance has been decreased
funds_released_raises_available(st, event) ==
    \/ event.account_id \notin DOMAIN st.accounts
    \/ event.asset \notin DOMAIN st.accounts[event.account_id]

\* FundsReleased: the state after the call
apply_funds_released(st, event) ==
    IF funds_released_raises_held(st, event) THEN st
    ELSE LET a == event.account_id
             st1 == [st EXCEPT
                        !.accounts_held[a][event.asset] = @ - event.amount]
         IN  IF funds_released_raises_available(st1, event) THEN st1
             ELSE [st1 EXCEPT !.accounts[a][event.asset] = @ + event.amount]

\* the exception that leaves apply
apply_exc(st, event) ==
    CASE event.type = "FundsReserved" ->
            IF funds_reserved_raises(st, event) THEN "ValueError" ELSE NoExc
      [] event.type = "FundsReleased" ->
            IF \/ funds_released_raises_held(st, event)
               \/ funds_released_raises_available(st, event)
            THEN "ValueError" ELSE NoExc
      [] OTHER -> NoExc

\* a fold in which a rejection cancels the order it names
apply_reject_cancels(st, event) ==
    CASE event.type = "OrderAccepted" -> apply_order_accepted(st, event)
      [] event.type = "OrderCanceled" -> apply_order_canceled(st, event)
      [] event.type = "OrderRejected" -> apply_order_canceled(st, event)
      [] event.type = "TradeOccurred" -> apply_trade_occurred(st, event)
      [] event.type = "OrderExpired" -> apply_order_expired(st, event)
      [] event.type = "FundsCredited" -> apply_funds_credited(st, event)
      [] event.type = "FundsReserved" -> apply_funds_reserved(st, event)
      [] event.type = "FundsReleased" -> apply_funds_released(st, event)
      [] OTHER -> st

apply(st, event) ==
    CASE event.type = "OrderAccepted" -> apply_order_accepted(st, event)
      [] event.type = "OrderCanceled" -> apply_order_canceled(st, event)
      [] event.type = "TradeOccurred" -> apply_trade_occurred(st, event)
      [] event.type = "OrderExpired" -> apply_order_expired(st, event)
      [] event.type = "FundsCredited" -> apply_funds_credited(st, event)
      [] event.type = "FundsReserved" -> apply_funds_reserved(st, event)
      [] event.type = "FundsReleased" -> apply_funds_released(st, event)
      [] OTHER -> st

RECURSIVE apply_all(_, _)
apply_all(st, events) ==
    IF events = << >> THEN st
    ELSE apply_all(apply(st, Head(events)), Tail(events))

\* ----------------------------------------------------------------- Engine
\* Every handler returns [book, events, seq, exc]: the book after the call,
\* the events built, the sequence counter after the calls of next_meta, and
\* the exception that left the handler (NoExc if it returned).
reject(b, sq, command, reason) ==
    [book |-> b,
     events |-> <<OrderRejected(sq + 1, command.instrument,
                                command.order_id, reason)>>,
     seq |-> sq + 1, exc |-> NoExc]

\* the trades reported before the OrderAccepted of their taker
accept_events_trades_first(sq, command, price, pl) ==
    [book |-> pl.book,
     events |-> [i \in 1..Len(pl.fills) |->
                    TradeOccurred(sq + i, command, pl.fills[i])]
                \o <<OrderAccepted(sq + 1 + Len(pl.fills), command, price)>>,
     seq |-> sq + 1 + Len(pl.fills),
     remaining |-> pl.remaining,
     exc |-> pl.exc]

\* OrderAccepted and one TradeOccurred per fill; pl is what place_limit
\* returned
accept_events(sq, command, price, pl) ==
    [book |-> pl.book,
     events |-> <<OrderAccepted(sq + 1, command, price)>>
                \o [i \in 1..Len(pl.fills) |->
                       TradeOccurred(sq + 1 + i, command, pl.fills[i])],
     seq |-> sq + 1 + Len(pl.fills),
     remaining |-> pl.remaining,
     exc |-> pl.exc]

\* OrderAccepted, book.place_limit, the TradeOccurred events
accept_and_match(b, sq, command, price) ==
    accept_events(sq, command, price,
        place_limit(b, [order_id |-> command.order_id, side |-> command.side,
                        price |-> price, remaining |-> command.qty]))

\* the end of handle(PlaceMarket): the remainder expires
place_market_end(sq, command, m) ==
    IF m.exc # NoExc
    THEN [book |-> m.book, events |-> << >>, seq |-> sq + 1, exc |-> m.exc]
    ELSE IF m.remaining > 0
    THEN [book |-> m.book,
          events |-> Append(m.events,
              OrderExpired(m.seq + 1, command, m.remaining, "unfilled")),
          seq |-> m.seq + 1, exc |-> NoExc]
    ELSE [book |-> m.book, events |-> m.events, seq |-> m.seq, exc |-> NoExc]

\* a duplicate check that only looks at the orders that are still Active
is_duplicate_active(st, command) ==
    /\ command.order_id \in DOMAIN st.orders
    /\ st.orders[command.order_id].status = ACTIVE

\* command.order_id in self.state.orders
is_duplicate(st, command) == command.order_id \in DOMAIN st.orders

handle_place_market(b, st, sq, command) ==
    IF command.qty <= 0 THEN reject(b, sq, command, "qty must be > 0")
    ELSE IF is_duplicate(st, command)
    THEN reject(b, sq, command, "duplicate order_id")
    ELSE place_market_end(sq, command,
             accept_and_match(b, sq, command,
                 IF command.side = BUY THEN sys_maxsize ELSE 1))

\* the post-only check with strict comparisons
post_only_crosses_strict(b, command) ==
    IF command.side = BUY
    THEN best_ask(b) # None /\ command.price > best_ask(b)
    ELSE best_bid(b) # None /\ command.price < best_bid(b)

post_only_crosses(b, command) ==
    IF command.side = BUY
    THEN best_ask(b) # None /\ command.price >= best_ask(b)
    ELSE best_bid(b) # None /\ command.price <= best_bid(b)

\* the end of handle(PlaceLimit): next_meta is called for any remainder, and
\* the remainder is reported as OrderRested (GTC) or OrderExpired (IOC)
place_limit_end(sq, command, m) ==
    IF m.exc # NoExc
    THEN [book |-> m.book, events |-> << >>, seq |-> sq + 1, exc |-> m.exc]
    ELSE IF m.remaining > 0
    THEN [book |-> m.book,
          events |->
             IF command.tif = GTC
             THEN Append(m.events,
                      OrderRested(m.seq + 1, command, m.remaining))
             ELSE IF command.tif = IOC
             THEN Append(m.events,
                      OrderExpired(m.seq + 1, command, m.remaining, "IOC"))
             ELSE m.events,
          seq |-> m.seq + 1, exc |-> NoExc]
    ELSE [book |-> m.book, events |-> m.events, seq |-> m.seq, exc |-> NoExc]

handle_place_limit(b, st, sq, command) ==
    IF command.qty <= 0 THEN reject(b, sq, command, "qty must be > 0")
    ELSE IF command.price <= 0
    THEN reject(b, sq, command, "price must be > 0")
    ELSE IF is_duplicate(st, command)
    THEN reject(b, sq, command, "duplicate order_id")
    ELSE IF command.post_only /\ post_only_crosses(b, command)
    THEN reject(b, sq, command, "post-only order would cross")
    ELSE place_limit_end(sq, command,
             accept_and_match(b, sq, command, command.price))

\* the end of handle(Cancel): c is what book.cancel returned
cancel_end(sq, command, c) ==
    IF c.exc # NoExc
    THEN [book |-> c.book, events |-> << >>, seq |-> sq, exc |-> c.exc]
    ELSE IF ~c.ok
    THEN reject(c.book, sq, command, "order_id not in book")
    ELSE [book |-> c.book,
          events |-> <<OrderCanceled(sq + 1, command)>>,
          seq |-> sq + 1, exc |-> NoExc]

\* a Cancel that goes to the book without looking at the record's status
handle_cancel_any_status(b, st, sq, command) ==
    IF command.order_id \notin DOMAIN st.orders
    THEN reject(b, sq, command, "unknown order_id")
    ELSE cancel_end(sq, command, cancel(b, command.order_id))

handle_cancel(b, st, sq, command) ==
    IF command.order_id \notin DOMAIN st.orders
    THEN reject(b, sq, command, "unknown order_id")
    ELSE IF st.orders[command.order_id].status # ACTIVE
    THEN reject(b, sq, command, "order not cancelable")
    ELSE cancel_end(sq, command, cancel(b, command.order_id))

handle(b, st, sq, command) ==
    CASE command.kind = "PlaceLimit" -> handle_place_limit(b, st, sq, command)
      [] command.kind = "PlaceMarket" -> handle_place_market(b, st, sq, command)
      [] command.kind = "Cancel" -> handle_cancel(b, st, sq, command)

\* a submit that watches the best bid only
with_top_of_book_bid_only(instrument, top, h) ==
    IF h.exc # NoExc THEN h
    ELSE IF top[1] # best_bid(h.book)
    THEN [h EXCEPT !.events = Append(@, TopOfBookChanged(h.seq + 1,
                                                         instrument, h.book)),
                   !.seq = @ + 1]
    ELSE h

\* the TopOfBookChanged that submit appends when the top of book differs
\* from the snapshot taken before handle; h is what handle returned
with_top_of_book(instrument, top, h) ==
    IF h.exc # NoExc THEN h
    ELSE IF top # top_of_book(h.book)
    THEN [h EXCEPT !.events = Append(@, TopOfBookChanged(h.seq + 1,
                                                         instrument, h.book)),
                   !.seq = @ + 1]
    ELSE h

\* Engine.submit up to the loop over the events: [book, events, seq, exc]
\* instrument is the engine's own
submit_events(instrument, b, st, sq, command) ==
    IF command.instrument # instrument
    THEN reject(b, sq, command, "instrument mismatch")
    ELSE with_top_of_book(instrument, top_of_book(b),
                          handle(b, st, sq, command))

\* the loop of submit over the events: each is appended to the log and
\* folded into the state; an exception in handle leaves both as they were
CommitEngine(command, r) ==
    /\ book' = r.book
    /\ seq' = r.seq
    /\ log' = IF r.exc = NoExc THEN log \o r.events ELSE log
    /\ state' = IF r.exc = NoExc THEN apply_all(state, r.events) ELSE state
    /\ last' = [command |-> command, events |-> r.events, exc |-> r.exc]
    /\ ncmds' = ncmds + 1

\* a command to the engine of the variables; nothing else moves
Commit(command, r) ==
    /\ CommitEngine(command, r)
    /\ UNCHANGED <<replayed, twin, venue, emitted>>

\* Engine.submit on the engine of INSTR
Submit(command) ==
    Commit(command, submit_events(INSTR, book, state, seq, command))

\* -------------------------------------------------- an engine as a value
\* [book, state, log, seq]: the fields of an Engine and the counter of the
\* NextMeta oracle it was built with
NewEngine ==
    [book |-> EmptyBook, state |-> EmptyState, log |-> << >>, seq |-> 0]

\* the loop of submit over the events, on an engine value; r is what
\* submit_events returned
engine_commit(e, r) ==
    IF r.exc # NoExc
    THEN [e EXCEPT !.book = r.book, !.seq = r.seq]
    ELSE [book |-> r.book, state |-> apply_all(e.state, r.events),
          log |-> e.log \o r.events, seq |-> r.seq]

\* the engine after submit, the events it returned, the exception it raised
engine_stepped(e, r) ==
    [engine |-> engine_commit(e, r), events |-> r.events, exc |-> r.exc]

\* an engine step that never reports the top of book
engine_step_no_top(instrument, e, command) ==
    LET r == IF command.instrument # instrument
             THEN reject(e.book, e.seq, command, "instrument mismatch")
             ELSE handle(e.book, e.state, e.seq, command)
    IN  [engine |-> engine_commit(e, r), events |-> r.events, exc |-> r.exc]

\* Engine.submit on an engine value
engine_step(instrument, e, command) ==
    engine_stepped(e,
        submit_events(instrument, e.book, e.state, e.seq, command))

\* ----------------------------------------------------------------- replay
\* OrderBook.apply_event: [book, exc]
apply_event(b, event) ==
    IF event.type = "OrderRested"
    THEN [book |-> rest(b, [order_id |-> event.order_id, side |-> event.side,
                            price |-> event.price, remaining |-> event.qty]),
          exc |-> NoExc]
    ELSE [book |-> b, exc |-> "ValueError"]

\* a replay step that appends the event to the log and skips the fold
replay_event_log_only(r, e, rebuild_book) == [r EXCEPT !.log = Append(@, e)]

\* the body of the loop of Engine.replay for an event of the instrument;
\* r = [book, state, log, exc]
replay_event(r, e, rebuild_book) ==
    IF rebuild_book
    THEN [book |-> apply_event(r.book, e).book,
          state |-> apply(r.state, e),
          log |-> Append(r.log, e),
          exc |-> apply_event(r.book, e).exc]
    ELSE [r EXCEPT !.log = Append(@, e), !.state = apply(@, e)]

\* the loop of Engine.replay; an exception ends it
RECURSIVE replay_loop(_, _, _, _)
replay_loop(instrument, r, events, rebuild_book) ==
    IF events = << >> \/ r.exc # NoExc THEN r
    ELSE IF Head(events).instrument = instrument
    THEN replay_loop(instrument, replay_event(r, Head(events), rebuild_book),
                     Tail(events), rebuild_book)
    ELSE replay_loop(instrument, r, Tail(events), rebuild_book)

\* Engine.replay: the engine built, or the exception that ended the call
replay(instrument, events, rebuild_book) ==
    replay_loop(instrument,
        [book |-> EmptyBook, state |-> EmptyState, log |-> << >>,
         exc |-> NoExc],
        events, rebuild_book)

\* ------------------------------------------------------------------ Venue
UNKNOWN_INSTR == "SOL-USD"

VenueInstruments == {INSTR, OTHER_INSTR}

\* Venue.__init__: one engine per instrument, all on the venue's _next_meta
NewVenue ==
    [seq |-> 0,
     engines |-> [i \in VenueInstruments |->
                     [book |-> EmptyBook, state |-> EmptyState,
                      log |-> << >>]]]

\* a venue whose counter does not move with the events of its engines
venue_submitted_own_seq(v, command, r) ==
    [venue |-> [v EXCEPT !.engines[command.instrument] =
                   [book |-> r.engine.book, state |-> r.engine.state,
                    log |-> r.engine.log]],
     events |-> r.events, exc |-> r.exc]

\* a venue whose engines all share the book, state and log of the engine
\* that took the command
venue_submitted_shared_engine(v, command, r) ==
    [venue |-> [seq |-> r.engine.seq,
                engines |-> [i \in DOMAIN v.engines |->
                   [book |-> r.engine.book, state |-> r.engine.state,
                    log |-> r.engine.log]]],
     events |-> r.events, exc |-> r.exc]

\* the venue after the engine's submit; r is what the engine's submit did
\* with the venue's counter as its oracle
venue_submitted(v, command, r) ==
    [venue |-> [seq |-> r.engine.seq,
                engines |-> [v.engines EXCEPT ![command.instrument] =
                   [book |-> r.engine.book, state |-> r.engine.state,
                    log |-> r.engine.log]]],
     events |-> r.events, exc |-> r.exc]

\* a venue that hands the commands of an instrument it does not have to the
\* engine of INSTR
venue_submit_default_engine(v, command) ==
    venue_submitted(v, [command EXCEPT !.instrument = INSTR],
        engine_step(INSTR,
            [book |-> v.engines[INSTR].book, state |-> v.engines[INSTR].state,
             log |-> v.engines[INSTR].log, seq |-> v.seq],
            command))

\* Venue.submit: [venue, events, exc]
venue_submit(v, command) ==
    IF command.instrument \notin DOMAIN v.engines
    THEN [venue |-> [v EXCEPT !.seq = @ + 1],
          events |-> <<OrderRejected(v.seq + 1, command.instrument,
                                     command.order_id,
                                     "instrument not found")>>,
          exc |-> NoExc]
    ELSE venue_submitted(v, command,
             engine_step(command.instrument,
                 [book |-> v.engines[command.instrument].book,
                  state |-> v.engines[command.instrument].state,
                  log |-> v.engines[command.instrument].log,
                  seq |-> v.seq],
                 command))

\* Venue(instruments) for any list of instruments
venue_of(instruments) ==
    [seq |-> 0,
     engines |-> [i \in instruments |->
                     [book |-> EmptyBook, state |-> EmptyState,
                      log |-> << >>]]]

\* the events of a stream whose instrument is among the instruments
events_of(instruments, events) ==
    SelectSeq(events, LAMBDA e : e.instrument \in instruments)

\* max(e.seq for e in events), of a stream that is not empty
max_seq(events) ==
    CHOOSE m \in {events[i].seq : i \in 1..Len(events)} :
        \A i \in 1..Len(events) : events[i].seq <= m

\* the venue that returns when no step of Venue.replay raises; engines is
\* what Engine.replay built for each instrument
venue_replayed(instruments, events, engines) ==
    [seq |-> IF events = << >> THEN 0
             ELSE max_seq(events_of(instruments, events)),
     engines |-> [i \in instruments |->
                     [book |-> engines[i].book, state |-> engines[i].state,
                      log |-> engines[i].log]]]

\* a Venue.replay that leaves the counter of the new venue at 0
venue_replay_fresh_counter(instruments, events, rebuild_book) ==
    IF \E i \in 1..Len(events) : events[i].instrument \notin instruments
    THEN [exc |-> "RuntimeError"]
    ELSE IF \E i \in instruments :
               replay(i, events, rebuild_book).exc # NoExc
    THEN [exc |-> "ValueError"]
    ELSE [exc |-> NoExc,
          venue |-> [venue_replayed(instruments, events,
                         [i \in instruments |->
                             replay(i, events, rebuild_book)])
                     EXCEPT !.seq = 0]]

\* Venue.replay: [exc, venue]. max() of no seq raises ValueError; then an
\* instrument that is not configured raises RuntimeError; then every engine
\* is replayed from the events of its instrument
venue_replay(instruments, events, rebuild_book) ==
    IF events # << >> /\ events_of(instruments, events) = << >>
    THEN [exc |-> "ValueError"]
    ELSE IF \E i \in 1..Len(events) : events[i].instrument \notin instruments
    THEN [exc |-> "RuntimeError"]
    ELSE IF \E i \in instruments :
               replay(i, events, rebuild_book).exc # NoExc
    THEN [exc |-> "ValueError"]
    ELSE [exc |-> NoExc,
          venue |-> venue_replayed(instruments, events,
                        [i \in instruments |->
                            replay(i, events, rebuild_book)])]

\* ------------------------------------------------------------- the inputs
\* Order ids are opaque to the engine (it only compares them), so a run
\* names its orders 1, 2, ... in the order in which they are accepted.
UsedIds == DOMAIN state.orders

FreshIds == {Cardinality(UsedIds) + 1}

\* well-formed limit orders with an unused id, of every side, price and
\* quantity, of the given times in force and post-only flags
ValidPlaceLimits(tifs, flags) ==
    [kind : {"PlaceLimit"}, instrument : {INSTR}, order_id : FreshIds,
     side : Sides, price : 1..MaxPrice, qty : 1..MaxQty,
     tif : tifs, post_only : flags]

\* limit orders with a zero quantity or a zero price
InvalidPlaceLimits ==
    {c \in [kind : {"PlaceLimit"}, instrument : {INSTR}, order_id : FreshIds,
            side : {BUY}, price : 0..1, qty : 0..1,
            tif : {GTC}, post_only : {FALSE}] : c.price = 0 \/ c.qty = 0}

\* limit orders that reuse the id of an order the engine has a record of
DuplicatePlaceLimits ==
    [kind : {"PlaceLimit"}, instrument : {INSTR}, order_id : UsedIds,
     side : {SELL}, price : {1}, qty : {1},
     tif : {GTC}, post_only : {FALSE}]

PlaceLimitCommands ==
    ValidPlaceLimits(TimeInForce, BOOLEAN)
        \cup InvalidPlaceLimits \cup DuplicatePlaceLimits

ValidPlaceMarkets ==
    [kind : {"PlaceMarket"}, instrument : {INSTR}, order_id : FreshIds,
     side : Sides, qty : 1..MaxQty]

PlaceMarketCommands ==
    ValidPlaceMarkets
        \cup [kind : {"PlaceMarket"}, instrument : {INSTR}, order_id : FreshIds,
              side : {BUY}, qty : {0}]
        \cup [kind : {"PlaceMarket"}, instrument : {INSTR}, order_id : UsedIds,
              side : {BUY}, qty : {1}]

CancelCommands ==
    [kind : {"Cancel"}, instrument : {INSTR}, order_id : UsedIds \cup FreshIds]

\* commands for another instrument than the engine's
MismatchCommands ==
    [kind : {"Cancel"}, instrument : {OTHER_INSTR}, order_id : FreshIds]

NoCommand == [kind |-> "none"]

\* no call of Engine.replay has been made
NotReplayed == [done |-> FALSE]

Init ==
    /\ book = EmptyBook
    /\ state = EmptyState
    /\ log = << >>
    /\ seq = 0
    /\ last = [command |-> NoCommand, events |-> << >>, exc |-> NoExc]
    /\ ncmds = 0
    /\ replayed = NotReplayed
    /\ twin = [engine |-> NewEngine, events |-> << >>, exc |-> NoExc]
    /\ venue = NewVenue
    /\ emitted = << >>

\* Every kind of command, in runs of MaxCmds commands.
PlaceLimit ==
    ncmds < MaxCmds /\ \E command \in PlaceLimitCommands : Submit(command)

PlaceMarket ==
    ncmds < MaxCmds /\ \E command \in PlaceMarketCommands : Submit(command)

Cancel ==
    ncmds < MaxCmds /\ \E command \in CancelCommands : Submit(command)

Mismatch ==
    ncmds < MaxCmds /\ \E command \in MismatchCommands : Submit(command)

Next == PlaceLimit \/ PlaceMarket \/ Cancel \/ Mismatch

Spec == Init /\ [][Next]_vars

\* Longer runs, of MaxDeepCmds commands, over the commands that build and
\* consume a book of several levels: GTC limit orders, market orders, cancels.
DeepPlaceLimit ==
    /\ ncmds < MaxDeepCmds
    /\ \E command \in ValidPlaceLimits({GTC}, {FALSE}) : Submit(command)

DeepPlaceMarket ==
    ncmds < MaxDeepCmds /\ \E command \in ValidPlaceMarkets : Submit(command)

DeepCancel ==
    ncmds < MaxDeepCmds /\ \E command \in CancelCommands : Submit(command)

NextDeep == DeepPlaceLimit \/ DeepPlaceMarket \/ DeepCancel

SpecDeep == Init /\ [][NextDeep]_vars

\* The longest runs, of MaxFifoCmds commands, for the order within one price
\* level: GTC limit orders at price 1, and cancels.
FifoPlaceCommands ==
    [kind : {"PlaceLimit"}, instrument : {INSTR}, order_id : FreshIds,
     side : Sides, price : {1}, qty : 1..MaxQty,
     tif : {GTC}, post_only : {FALSE}]

FifoPlace ==
    ncmds < MaxFifoCmds /\ \E command \in FifoPlaceCommands : Submit(command)

FifoCancel ==
    ncmds < MaxFifoCmds /\ \E command \in CancelCommands : Submit(command)

NextFifo == FifoPlace \/ FifoCancel

SpecFifo == Init /\ [][NextFifo]_vars

\* Two engines, each with a NextMeta of its own, are given the same
\* commands: the engine of the variables and the twin.
TwinSubmit ==
    /\ ncmds < MaxCmds
    /\ \E command \in PlaceLimitCommands \cup PlaceMarketCommands
                        \cup CancelCommands \cup MismatchCommands :
          /\ CommitEngine(command,
                 submit_events(INSTR, book, state, seq, command))
          /\ twin' = engine_step(INSTR, twin.engine, command)
          /\ UNCHANGED <<replayed, venue, emitted>>

NextTwin == TwinSubmit

SpecTwin == Init /\ [][NextTwin]_vars

\* An engine seeded with balances runs MaxCmds commands and its log is then
\* replayed, with and without rebuild_book.
FundsCredited(sq, instrument, account_id, asset, amount) ==
    [type |-> "FundsCredited", seq |-> sq, instrument |-> instrument,
     account_id |-> account_id, asset |-> asset, amount |-> amount]

\* the balances the runs are seeded with: <<account, asset, amount>>
Balances == {<< >>, <<<<"alice", "USD", 1>>>>}

\* engine_with_balances: every balance is a FundsCredited event, with seq
\* -1, appended to the log and folded into the state
seed_events(instrument, balances) ==
    [i \in 1..Len(balances) |->
        FundsCredited(-1, instrument, balances[i][1], balances[i][2],
                      balances[i][3])]

InitSeeded ==
    /\ \E balances \in Balances :
          /\ log = seed_events(INSTR, balances)
          /\ state = apply_all(EmptyState, seed_events(INSTR, balances))
    /\ book = EmptyBook
    /\ seq = 0
    /\ last = [command |-> NoCommand, events |-> << >>, exc |-> NoExc]
    /\ ncmds = 0
    /\ replayed = NotReplayed
    /\ twin = [engine |-> NewEngine, events |-> << >>, exc |-> NoExc]
    /\ venue = NewVenue
    /\ emitted = << >>

ReplayPlaceCommands ==
    [kind : {"PlaceLimit"}, instrument : {INSTR}, order_id : FreshIds,
     side : Sides, price : {1}, qty : 1..MaxQty,
     tif : TimeInForce, post_only : {FALSE}]

ReplaySubmit ==
    /\ ncmds < MaxCmds
    /\ ~replayed.done
    /\ \E command \in ReplayPlaceCommands \cup ValidPlaceMarkets
                        \cup CancelCommands \cup MismatchCommands :
          Submit(command)

\* Engine.replay(INSTR, log.all(), NextMeta(), rebuild_book)
Replay ==
    /\ ~replayed.done
    /\ \E rebuild_book \in BOOLEAN :
          replayed' = [done |-> TRUE, rebuild_book |-> rebuild_book,
                       engine |-> replay(INSTR, log, rebuild_book),
                       submitted |-> FALSE]
    /\ UNCHANGED <<book, state, log, seq, last, ncmds, twin, venue, emitted>>

\* the commands sent to the replayed engine: a new limit order
ReplayedCommands ==
    [kind : {"PlaceLimit"}, instrument : {INSTR},
     order_id : {Cardinality(DOMAIN replayed.engine.state.orders) + 1},
     side : Sides, price : {1}, qty : {1}, tif : {GTC}, post_only : {FALSE}]

\* one submit on the engine that Engine.replay returned; its oracle is the
\* NextMeta() that was passed to replay, which starts at 0
ReplayedSubmit ==
    /\ replayed.done
    /\ replayed.engine.exc = NoExc
    /\ ~replayed.submitted
    /\ \E command \in ReplayedCommands :
          replayed' = [done |-> TRUE, rebuild_book |-> replayed.rebuild_book,
                       engine |-> replayed.engine, submitted |-> TRUE,
                       after |-> engine_step(INSTR,
                                    [book |-> replayed.engine.book,
                                     state |-> replayed.engine.state,
                                     log |-> replayed.engine.log, seq |-> 0],
                                    command)]
    /\ UNCHANGED <<book, state, log, seq, last, ncmds, twin, venue, emitted>>

NextReplay == ReplaySubmit \/ Replay \/ ReplayedSubmit

SpecReplay == InitSeeded /\ [][NextReplay]_vars

\* A venue of two instruments: limit orders and cancels for either engine,
\* and commands for an instrument the venue does not have.
VenueCommit(command, r) ==
    /\ venue' = r.venue
    /\ emitted' = IF r.exc = NoExc THEN emitted \o r.events ELSE emitted
    /\ last' = [command |-> command, events |-> r.events, exc |-> r.exc]
    /\ ncmds' = ncmds + 1
    /\ UNCHANGED <<book, state, log, seq, replayed, twin>>

VenueSubmit(command) == VenueCommit(command, venue_submit(venue, command))

VenuePlaceCommands ==
    UNION {[kind : {"PlaceLimit"}, instrument : {i},
            order_id : {Cardinality(DOMAIN venue.engines[i].state.orders) + 1},
            side : Sides, price : {1}, qty : {1},
            tif : {GTC, FOK}, post_only : {FALSE}] : i \in VenueInstruments}

VenueCancelCommands ==
    UNION {[kind : {"Cancel"}, instrument : {i},
            order_id : DOMAIN venue.engines[i].state.orders]
              : i \in VenueInstruments}

VenueUnknownCommands ==
    [kind : {"Cancel"}, instrument : {UNKNOWN_INSTR}, order_id : {1}]

VenuePlace ==
    ncmds < MaxDeepCmds /\ \E command \in VenuePlaceCommands :
                              VenueSubmit(command)

VenueCancel ==
    ncmds < MaxDeepCmds /\ \E command \in VenueCancelCommands :
                              VenueSubmit(command)

VenueUnknown ==
    ncmds < MaxDeepCmds /\ \E command \in VenueUnknownCommands :
                              VenueSubmit(command)

NextVenue == VenuePlace \/ VenueCancel \/ VenueUnknown

SpecVenue == Init /\ [][NextVenue]_vars

\* The ledger on its own: Funds* events and order events are applied to an
\* EngineState, MaxLedgerEvents of them, with amounts up to MaxQty. Only
\* alice is ever credited; events for bob name an account without balances.
BASE == "BTC"
QUOTE == "USD"

Assets == {BASE, QUOTE}

\* FundsReserved and FundsReleased events, with the fields that apply reads
FundsEvents(type) ==
    [type : {type}, seq : {-1}, instrument : {INSTR},
     account_id : {"alice", "bob"}, asset : Assets, amount : 0..MaxQty]

\* state.apply(event), and the exception that left it
LedgerApply(event) ==
    /\ ncmds < MaxLedgerEvents
    /\ state' = apply(state, event)
    /\ last' = [command |-> NoCommand, events |-> <<event>>,
                exc |-> apply_exc(state, event)]
    /\ ncmds' = ncmds + 1
    /\ UNCHANGED <<book, log, seq, replayed, twin, venue, emitted>>

LedgerCredit ==
    \E asset \in Assets : \E amount \in 0..MaxQty :
        LedgerApply(FundsCredited(-1, INSTR, "alice", asset, amount))

LedgerReserve == \E event \in FundsEvents("FundsReserved") : LedgerApply(event)

LedgerRelease == \E event \in FundsEvents("FundsReleased") : LedgerApply(event)

\* the OrderAccepted of a new order, or the OrderCanceled of a known one
LedgerOrder ==
    \/ \E command \in [kind : {"PlaceLimit"}, instrument : {INSTR},
                        order_id : FreshIds, side : {BUY}, price : {1},
                        qty : {1}, tif : {GTC}, post_only : {FALSE}] :
          LedgerApply(OrderAccepted(-1, command, command.price))
    \/ \E command \in [kind : {"Cancel"}, instrument : {INSTR},
                        order_id : UsedIds] :
          LedgerApply(OrderCanceled(-1, command))

NextLedger == LedgerCredit \/ LedgerReserve \/ LedgerRelease \/ LedgerOrder

SpecLedger == Init /\ [][NextLedger]_vars

\* An engine seeded with balances for two accounts: alice holds the quote
\* asset and places the buys, bob holds the base asset and places the sells,
\* so the buyer and the seller of every trade are known. MaxCmds commands.
FundedBalances ==
    <<<<"alice", QUOTE, MaxQty>>, <<"alice", BASE, 0>>,
      <<"bob", QUOTE, 0>>, <<"bob", BASE, 1>>>>

AccountOf(side) == IF side = BUY THEN "alice" ELSE "bob"

InitFunded ==
    /\ log = seed_events(INSTR, FundedBalances)
    /\ state = apply_all(EmptyState, seed_events(INSTR, FundedBalances))
    /\ book = EmptyBook
    /\ seq = 0
    /\ last = [command |-> NoCommand, events |-> << >>, exc |-> NoExc]
    /\ ncmds = 0
    /\ replayed = NotReplayed
    /\ twin = [engine |-> NewEngine, events |-> << >>, exc |-> NoExc]
    /\ venue = NewVenue
    /\ emitted = << >>

\* the commands with the account_id of their sender
FundedPlaceLimits ==
    {c \in [kind : {"PlaceLimit"}, instrument : {INSTR},
            account_id : {"alice", "bob"}, order_id : FreshIds,
            side : Sides, price : 1..MaxPrice, qty : 1..MaxQty,
            tif : TimeInForce, post_only : {FALSE}] :
        c.account_id = AccountOf(c.side)}

FundedPlaceMarkets ==
    {c \in [kind : {"PlaceMarket"}, instrument : {INSTR},
            account_id : {"alice", "bob"}, order_id : FreshIds,
            side : Sides, qty : 1..MaxQty] :
        c.account_id = AccountOf(c.side)}

FundedCancels ==
    {c \in [kind : {"Cancel"}, instrument : {INSTR},
            account_id : {"alice", "bob"}, order_id : UsedIds] :
        c.account_id = AccountOf(state.orders[c.order_id].side)}

FundedPlaceLimit ==
    ncmds < MaxCmds /\ \E command \in FundedPlaceLimits : Submit(command)

FundedPlaceMarket ==
    ncmds < MaxCmds /\ \E command \in FundedPlaceMarkets : Submit(command)

FundedCancel ==
    ncmds < MaxCmds /\ \E command \in FundedCancels : Submit(command)

NextFunded == FundedPlaceLimit \/ FundedPlaceMarket \/ FundedCancel

SpecFunded == InitFunded /\ [][NextFunded]_vars

\* The stream of a live venue of two instruments, of MaxCmds commands, is
\* replayed into a venue of one or of both instruments, with and without
\* rebuild_book; the replayed venue then takes one command.
ReplayInstruments == {{INSTR}, VenueInstruments}

VenueLiveSubmit ==
    /\ ncmds < MaxCmds
    /\ ~replayed.done
    /\ \E command \in VenuePlaceCommands \cup VenueCancelCommands
                        \cup VenueUnknownCommands :
          VenueSubmit(command)

\* Venue.replay(instruments, events, rebuild_book) on the stream emitted
VenueReplay ==
    /\ ~replayed.done
    /\ \E instruments \in ReplayInstruments : \E rebuild_book \in BOOLEAN :
          replayed' = [done |-> TRUE, rebuild_book |-> rebuild_book,
                       instruments |-> instruments,
                       result |-> venue_replay(instruments, emitted,
                                               rebuild_book),
                       submitted |-> FALSE]
    /\ UNCHANGED <<book, state, log, seq, last, ncmds, twin, venue, emitted>>

\* the commands sent to the replayed venue: a new limit order for INSTR, or
\* a command for an instrument it does not have
ReplayedVenueCommands ==
    [kind : {"PlaceLimit"}, instrument : {INSTR},
     order_id : {Cardinality(DOMAIN
         replayed.result.venue.engines[INSTR].state.orders) + 1},
     side : Sides, price : {1}, qty : {1}, tif : {GTC}, post_only : {FALSE}]
      \cup VenueUnknownCommands

\* one submit on the venue that Venue.replay returned
ReplayedVenueSubmit ==
    /\ replayed.done
    /\ replayed.result.exc = NoExc
    /\ ~replayed.submitted
    /\ \E command \in ReplayedVenueCommands :
          replayed' = [done |-> TRUE, rebuild_book |-> replayed.rebuild_book,
                       instruments |-> replayed.instruments,
                       result |-> replayed.result, submitted |-> TRUE,
                       after |-> venue_submit(replayed.result.venue, command)]
    /\ UNCHANGED <<book, state, log, seq, last, ncmds, twin, venue, emitted>>

NextVenueReplay == VenueLiveSubmit \/ VenueReplay \/ ReplayedVenueSubmit

SpecVenueReplay == Init /\ [][NextVenueReplay]_vars

\* An OrderBook used on its own, MaxDeepCmds operations: orders are placed
\* and canceled, and the index can be given an entry, for the order_id
\* GHOST, that points at a level that does not exist.
GHOST == 0

BookOrders ==
    [order_id : {ncmds + 1}, side : Sides, price : 1..MaxPrice,
     remaining : 1..MaxQty]

\* book.place_limit(order)
BookPlace ==
    /\ ncmds < MaxDeepCmds
    /\ \E order \in BookOrders :
          /\ book' = place_limit(book, order).book
          /\ last' = [command |-> [kind |-> "place_limit", order |-> order],
                      events |-> << >>, exc |-> place_limit(book, order).exc]
    /\ ncmds' = ncmds + 1
    /\ UNCHANGED <<state, log, seq, replayed, twin, venue, emitted>>

\* book.orders_by_id[GHOST] = (side, price), where no such level exists
BookCorrupt ==
    /\ GHOST \notin DOMAIN book.orders_by_id
    /\ \E side \in Sides : \E price \in 1..MaxPrice :
          /\ ~has_level(book, side, price)
          /\ book' = [book EXCEPT
                         !.orders_by_id = Put(@, GHOST, <<side, price>>)]
    /\ UNCHANGED <<state, log, seq, last, ncmds, replayed, twin, venue,
                   emitted>>

\* book.cancel(order_id): the value returned is kept in last.ok
BookCancel ==
    /\ ncmds < MaxDeepCmds
    /\ \E order_id \in DOMAIN book.orders_by_id :
          /\ book' = cancel(book, order_id).book
          /\ last' = [command |-> [kind |-> "cancel", order_id |-> order_id],
                      events |-> << >>, exc |-> cancel(book, order_id).exc,
                      ok |-> cancel(book, order_id).ok]
    /\ ncmds' = ncmds + 1
    /\ UNCHANGED <<state, log, seq, replayed, twin, venue, emitted>>

NextOutOfSync == BookPlace \/ BookCorrupt \/ BookCancel

SpecOutOfSync == Init /\ [][NextOutOfSync]_vars

\* The order events on their own: MaxDeepCmds events of any kind are
\* applied to an EngineState in any order, for the ids 1..MaxCmds + 1, of
\* which the highest never gets a record.
RecordIds == 1..MaxCmds + 1

RecordApply(event) ==
    /\ ncmds < MaxDeepCmds
    /\ state' = apply(state, event)
    /\ last' = [command |-> NoCommand, events |-> <<event>>,
                exc |-> apply_exc(state, event)]
    /\ ncmds' = ncmds + 1
    /\ UNCHANGED <<book, log, seq, replayed, twin, venue, emitted>>

RecordAccepted ==
    \E command \in [kind : {"PlaceLimit"}, instrument : {INSTR},
                     order_id : FreshIds \cap 1..MaxCmds, side : Sides,
                     price : {1}, qty : 1..MaxQty, tif : {GTC},
                     post_only : {FALSE}] :
        RecordApply(OrderAccepted(-1, command, command.price))

RecordTrade ==
    \E taker, maker \in RecordIds : \E qty \in 1..MaxQty :
        /\ taker # maker
        /\ RecordApply(TradeOccurred(-1,
               [instrument |-> INSTR, order_id |-> taker],
               [maker_order_id |-> maker, maker_price |-> 1, qty |-> qty]))

RecordCanceled ==
    \E order_id \in RecordIds :
        RecordApply(OrderCanceled(-1, [instrument |-> INSTR,
                                       order_id |-> order_id]))

RecordExpired ==
    \E order_id \in RecordIds :
        RecordApply(OrderExpired(-1, [instrument |-> INSTR,
                                      order_id |-> order_id], 1, "IOC"))

NextRecords ==
    RecordAccepted \/ RecordTrade \/ RecordCanceled \/ RecordExpired

SpecRecords == Init /\ [][NextRecords]_vars

\* ------------------------------------------------------- reading the log
RECURSIVE SumQty(_)
SumQty(events) ==
    IF events = << >> THEN 0 ELSE Head(events).qty + SumQty(Tail(events))

IsTrade(e) == e.type = "TradeOccurred"

Trades(events) == SelectSeq(events, IsTrade)

\* the trades of a list of events that name an order as taker or as maker
TradesOf(events, order_id) ==
    SelectSeq(events, LAMBDA e : IsTrade(e) /\ (e.taker_order_id = order_id
                                              \/ e.maker_order_id = order_id))

TypesOf(events, type) == SelectSeq(events, LAMBDA e : e.type = type)

\* the position in the log of the OrderAccepted of an accepted order
AcceptedAt(order_id) ==
    CHOOSE i \in 1..Len(log) :
        log[i].type = "OrderAccepted" /\ log[i].order_id = order_id

\* the resting orders of one side of a book
Resting(b, side) ==
    LET levels == IF side = BUY THEN b.bids ELSE b.asks
    IN  {levels[p][i] : <<p, i>> \in
            {<<p, i>> \in (DOMAIN levels) \X (1..MaxCmds + MaxDeepCmds + MaxFifoCmds) :
                i <= Len(levels[p])}}

InBook(b, order_id) ==
    \/ order_id \in DOMAIN b.orders_by_id
    \/ \E side \in Sides : \E o \in Resting(b, side) : o.order_id = order_id

Opposite(side) == IF side = BUY THEN SELL ELSE BUY

\* the last command was accepted: its events start with OrderAccepted
LastAccepted(l) ==
    /\ l.exc = NoExc
    /\ Len(l.events) > 0
    /\ l.events[1].type = "OrderAccepted"

LastRejectedWith(l, reason) ==
    /\ l.exc = NoExc
    /\ Len(l.events) = 1
    /\ l.events[1].type = "OrderRejected"
    /\ l.events[1].reason = reason
    /\ l.events[1].order_id = l.command.order_id

\* a PlaceLimit that passes the checks on qty, price and order_id
WellFormedLimit(command, st) ==
    /\ command.kind = "PlaceLimit"
    /\ command.instrument = INSTR
    /\ command.qty > 0
    /\ command.price > 0
    /\ command.order_id \notin DOMAIN st.orders

C2_FillsB(events, a, b) ==
    \E j \in 1..Len(events) :
        /\ IsTrade(events[j])
        /\ events[j].maker_order_id = b

C2_AFilledFirst(events, a, b) ==
    \A j \in 1..Len(events) :
        (IsTrade(events[j]) /\ events[j].maker_order_id = b)
            => \E i \in 1..(j - 1) :
                  IsTrade(events[i]) /\ events[i].maker_order_id = a

C3_Monotone(l) ==
    LET t == Trades(l.events)
    IN  \A i, j \in 1..Len(t) :
            i < j => IF l.command.side = BUY
                     THEN t[i].price <= t[j].price
                     ELSE t[i].price >= t[j].price

C3_NoBetterLeft(b, b2, l) ==
    \A j \in 1..Len(l.events) :
        IsTrade(l.events[j])
            => \A o \in Resting(b, Opposite(l.command.side)) :
                  (IF l.command.side = BUY
                   THEN o.price < l.events[j].price
                   ELSE o.price > l.events[j].price)
                      => /\ ~InBook(b2, o.order_id)
                         /\ \E i \in 1..(j - 1) :
                               /\ IsTrade(l.events[i])
                               /\ l.events[i].maker_order_id = o.order_id

C6_Liquidity(b, command) ==
    LET makers == {o \in Resting(b, Opposite(command.side)) :
                      crosses(command.side, command.price, o.price)}
        RECURSIVE Sum(_)
        Sum(S) == IF S = {} THEN 0
                  ELSE LET o == CHOOSE x \in S : TRUE
                       IN  o.remaining + Sum(S \ {o})
    IN  Sum(makers)

C6_FokAllOrNothing ==
    [][(/\ WellFormedLimit(last'.command, state)
        /\ last'.command.tif = FOK
        /\ ~(last'.command.post_only /\ post_only_crosses(book, last'.command)))
          => IF C6_Liquidity(book, last'.command) < last'.command.qty
             THEN /\ LastRejectedWith(last', "FOK not fillable")
                  /\ book' = book
             ELSE /\ LastAccepted(last')
                  /\ SumQty(Trades(last'.events)) = last'.command.qty
                  /\ ~InBook(book', last'.command.order_id)]_vars

C9_Crosses(b, command) ==
    IF command.side = BUY
    THEN best_ask(b) # None /\ command.price >= best_ask(b)
    ELSE best_bid(b) # None /\ command.price <= best_bid(b)

C9_RestsInFull(b, command) ==
    /\ command.order_id \in DOMAIN b.orders_by_id
    /\ b.orders_by_id[command.order_id] = <<command.side, command.price>>
    /\ \E o \in Resting(b, command.side) :
          /\ o.order_id = command.order_id
          /\ o.price = command.price
          /\ o.remaining = command.qty

C10_CancelEffect(b, st, b2, st2, l) ==
    (/\ l.command.kind = "Cancel"
     /\ l.command.instrument = INSTR
     /\ l.command.order_id \in DOMAIN st.orders
     /\ st.orders[l.command.order_id].status = ACTIVE
     /\ InBook(b, l.command.order_id))
        => /\ l.exc = NoExc
           /\ Len(l.events) >= 1
           /\ l.events[1].type = "OrderCanceled"
           /\ l.events[1].order_id = l.command.order_id
           /\ Len(TypesOf(l.events, "OrderCanceled")) = 1
           /\ ~InBook(b2, l.command.order_id)
           /\ st2.orders[l.command.order_id].status = CANCELED

C10_NoTradeAfterCancel(events) ==
    \A i, j \in 1..Len(events) :
        (i < j /\ events[i].type = "OrderCanceled" /\ IsTrade(events[j]))
            => /\ events[j].maker_order_id # events[i].order_id
               /\ events[j].taker_order_id # events[i].order_id

C11_Rejected(l) ==
    \E i \in 1..Len(l.events) : l.events[i].type = "OrderRejected"

C11_RejectionLeavesNoTrace ==
    [][C11_Rejected(last')
         => /\ last'.exc = NoExc
            /\ Len(last'.events) = 1
            /\ book' = book
            /\ state' = state
            /\ log' = Append(log, last'.events[1])]_vars

\* a command was rejected while the engine holds a resting order
C11_Witness ==
    /\ C11_Rejected(last)
    /\ last.command.instrument = INSTR
    /\ DOMAIN book.orders_by_id # {}
    /\ DOMAIN state.orders # {}

\* ----------------------------------------------------------------- C12
\* C12: per engine an order_id is accepted at most once.  A PlaceLimit or
\* PlaceMarket that passes the checks on qty and price and whose order_id
\* has a record in state.orders, whatever its status, is rejected with
\* "duplicate order_id", and the log never holds two OrderAccepted events
\* of one order_id.
C12_AcceptedOnce(events) ==
    \A i, j \in 1..Len(events) :
        (/\ i < j
         /\ events[i].type = "OrderAccepted"
         /\ events[j].type = "OrderAccepted")
            => events[i].order_id # events[j].order_id

C12_PlaceOfKnownId(command, st) ==
    /\ command.kind \in {"PlaceLimit", "PlaceMarket"}
    /\ command.instrument = INSTR
    /\ command.qty > 0
    /\ IF command.kind = "PlaceLimit" THEN command.price > 0 ELSE TRUE
    /\ command.order_id \in DOMAIN st.orders

C14_ReplayedBook ==
    (replayed.done /\ replayed.rebuild_book)
        => /\ replayed.engine.exc = NoExc
           /\ best_bid(replayed.engine.book) = best_bid(book)
           /\ best_ask(replayed.engine.book) = best_ask(book)
           /\ replayed.engine.book.bids = book.bids
           /\ replayed.engine.book.asks = book.asks

C18_Rank(e) ==
    CASE e.type = "OrderAccepted" -> 1
      [] e.type = "TradeOccurred" -> 2
      [] e.type \in {"OrderRested", "OrderExpired"} -> 3
      [] e.type = "TopOfBookChanged" -> 4
      [] OTHER -> 0

C18_Ordered(events) ==
    /\ C18_Rank(events[1]) = 1
    /\ \A i \in 1..Len(events) : C18_Rank(events[i]) > 0
    /\ \A i, j \in 1..Len(events) :
          i < j => /\ C18_Rank(events[i]) <= C18_Rank(events[j])
                   /\ C18_Rank(events[i]) # 2
                        => C18_Rank(events[i]) < C18_Rank(events[j])

C18_Accepted(l) ==
    /\ l.exc = NoExc
    /\ l.command.kind \in {"PlaceLimit", "PlaceMarket"}
    /\ \E i \in 1..Len(l.events) : l.events[i].type = "OrderAccepted"

C19_Reported(events, b) ==
    LET changes == TypesOf(events, "TopOfBookChanged")
    IN  /\ Len(changes) = 1
        /\ events[Len(events)].type = "TopOfBookChanged"
        /\ changes[1].best_bid_ticks = best_bid(b)
        /\ changes[1].best_ask_ticks = best_ask(b)

C21_Canceled(events, order_id) ==
    SelectSeq(events, LAMBDA e : e.type = "OrderCanceled"
                                 /\ e.order_id = order_id)

C26_UnknownInstrument ==
    [][last'.command.instrument \notin DOMAIN venue.engines =>
          /\ LastRejectedWith(last', "instrument not found")
          /\ last'.events[1].instrument = last'.command.instrument
          /\ venue'.engines = venue.engines]_vars

\* a command for an unknown instrument has been rejected by a venue whose
\* engines hold orders
C26_Witness ==
    /\ last.command.kind = "Cancel"
    /\ last.command.instrument = UNKNOWN_INSTR
    /\ LastRejectedWith(last, "instrument not found")
    /\ \A i \in VenueInstruments : venue.engines[i].log # << >>

\* ----------------------------------------------------------------- C27
\* C27: a command for instrument A leaves the book, state and log of every
\* other engine unchanged; one order_id can be live on two instruments, a
\* Cancel changes the order of its own instrument only, and the two orders
\* of every TradeOccurred have their records in the engine of the trade's
\* instrument, whose log holds the trade and no other engine's does.
C27_OtherEngines(instrument) == DOMAIN venue.engines \ {instrument}

C27_TradeOfOneInstrument(v, e) ==
    /\ e.instrument \in DOMAIN v.engines
    /\ e.taker_order_id \in DOMAIN v.engines[e.instrument].state.orders
    /\ e.maker_order_id \in DOMAIN v.engines[e.instrument].state.orders
    /\ \A i \in DOMAIN v.engines :
          (\E k \in 1..Len(v.engines[i].log) : v.engines[i].log[k] = e)
             <=> i = e.instrument

C27_TradeWitness ==
    /\ Trades(last.events) # << >>
    /\ \E i \in C27_OtherEngines(last.command.instrument) :
          venue.engines[i].book.orders_by_id # << >>

\* ----------------------------------------------------------------- C25
\* C25: after every event applied to the state, available >= 0 and held >= 0
\* for every account and asset; a FundsReserved of more than is available
\* and a FundsReleased of more than is held raise and change no balance.
C25_NonNegative(st) ==
    /\ \A a \in DOMAIN st.accounts :
          \A asset \in DOMAIN st.accounts[a] : st.accounts[a][asset] >= 0
    /\ \A a \in DOMAIN st.accounts_held :
          \A asset \in DOMAIN st.accounts_held[a] :
              st.accounts_held[a][asset] >= 0

\* the balance of an account and asset in a ledger, 0 if it has none
C25_Balance(ledger, a, asset) ==
    IF a \in DOMAIN ledger /\ asset \in DOMAIN ledger[a]
    THEN ledger[a][asset] ELSE 0

C25_LedgerNonNegative ==
    [][LET event == last'.events[1]
       IN  /\ C25_NonNegative(state')
           /\ (/\ event.type = "FundsReserved"
               /\ event.amount
                     > C25_Balance(state.accounts, event.account_id,
                                   event.asset))
                 => last'.exc = "ValueError" /\ state' = state
           /\ (/\ event.type = "FundsReleased"
               /\ event.amount
                     > C25_Balance(state.accounts_held, event.account_id,
                                   event.asset))
                 => last'.exc = "ValueError" /\ state' = state]_vars

\* a reservation of more than is available has been refused while part of
\* the balance was held
C25_Witness ==
    /\ last.events # << >>
    /\ last.events[1].type = "FundsReserved"
    /\ last.events[1].account_id = "alice"
    /\ last.exc = "ValueError"
    /\ "alice" \in DOMAIN state.accounts
    /\ QUOTE \in DOMAIN state.accounts["alice"]
    /\ state.accounts_held["alice"][QUOTE] > 0
    /\ state.accounts["alice"][QUOTE] > 0
    /\ last.events[1].asset = QUOTE
    /\ last.events[1].amount > state.accounts["alice"][QUOTE]

\* ------------------------------------------------------------ balances
\* what an order of a side, price and quantity needs: the asset, the amount
NeededAsset(side) == IF side = BUY THEN QUOTE ELSE BASE

NeededAmount(side, price, qty) == IF side = BUY THEN qty * price ELSE qty

Available(st, a, asset) == st.accounts[a][asset]

Held(st, a, asset) == st.accounts_held[a][asset]

\* ----------------------------------------------------------------- C22
\* C22: a GTC limit order that rests whole moves what it needs (q*p of the
\* quote asset for a buy, q of the base asset for a sell) from available to
\* held of its account, and the Cancel of an untraded resting order moves
\* the same amount back from held to available.
C22_Reserves(command) ==
    LET a == command.account_id
        asset == NeededAsset(command.side)
        amount == NeededAmount(command.side, command.price, command.qty)
    IN  (/\ command.tif = GTC
         /\ Available(state, a, asset) >= amount
         /\ LastAccepted(last')
         /\ last'.events[Len(last'.events)].type \in
               {"OrderRested", "TopOfBookChanged"}
         /\ Trades(last'.events) = << >>)
          => /\ Available(state', a, asset)
                  = Available(state, a, asset) - amount
             /\ Held(state', a, asset) = Held(state, a, asset) + amount

C22_Releases(command) ==
    LET a == command.account_id
        record == state.orders[command.order_id]
        asset == NeededAsset(record.side)
        amount == NeededAmount(record.side, record.price, record.remaining)
    IN  (/\ last'.exc = NoExc
         /\ last'.events[1].type = "OrderCanceled"
         /\ record.remaining = record.qty)
          => /\ Available(state', a, asset)
                  = Available(state, a, asset) + amount
             /\ Held(state', a, asset) = Held(state, a, asset) - amount

C23_InsufficientFunds ==
    [][LET command == last'.command
       IN  (/\ WellFormedLimit(command, state)
            /\ Available(state, command.account_id,
                          NeededAsset(command.side))
                  < NeededAmount(command.side, command.price, command.qty))
             => /\ LastRejectedWith(last', "insufficient funds")
                /\ state' = state]_vars

\* ----------------------------------------------------------------- C24
\* C24: the trades of a command move q*p of the quote asset from the buyer
\* (alice) to the seller (bob) and q of the base asset from the seller to
\* the buyer, counting available plus held; and a taker that does not rest
\* holds nothing afterwards if its account held nothing before.
RECURSIVE C24_Cost(_)
C24_Cost(trades) ==
    IF trades = << >> THEN 0
    ELSE Head(trades).qty * Head(trades).price + C24_Cost(Tail(trades))

C24_Total(st, a, asset) == Available(st, a, asset) + Held(st, a, asset)

C24_Settled(trades) ==
    /\ C24_Total(state', "alice", QUOTE)
          = C24_Total(state, "alice", QUOTE) - C24_Cost(trades)
    /\ C24_Total(state', "bob", QUOTE)
          = C24_Total(state, "bob", QUOTE) + C24_Cost(trades)
    /\ C24_Total(state', "alice", BASE)
          = C24_Total(state, "alice", BASE) + SumQty(trades)
    /\ C24_Total(state', "bob", BASE)
          = C24_Total(state, "bob", BASE) - SumQty(trades)

C24_TakerHoldsNothing(command) ==
    (/\ \/ command.kind = "PlaceMarket"
        \/ command.kind = "PlaceLimit" /\ command.tif \in {IOC, FOK}
     /\ Held(state, command.account_id, NeededAsset(command.side)) = 0)
      => Held(state', command.account_id, NeededAsset(command.side)) = 0

C28_UnknownInstrumentFatal ==
    (/\ replayed.done
     /\ \E i \in 1..Len(emitted) :
           emitted[i].instrument \notin replayed.instruments)
      => replayed.result.exc = "RuntimeError"

C31_RestingOf(b, order_id) ==
    CHOOSE o \in Resting(b, BUY) \cup Resting(b, SELL) : o.order_id = order_id

C31_Agree(b, st, order_id) ==
    /\ order_id \in DOMAIN b.orders_by_id
          <=> (/\ order_id \in DOMAIN st.orders
               /\ st.orders[order_id].status = ACTIVE)
    /\ order_id \in DOMAIN b.orders_by_id =>
          /\ InBook(b, order_id)
          /\ order_id \in DOMAIN st.orders
          /\ C31_RestingOf(b, order_id).side = st.orders[order_id].side
          /\ C31_RestingOf(b, order_id).price = st.orders[order_id].price
          /\ C31_RestingOf(b, order_id).remaining
                = st.orders[order_id].remaining

C32_Levels(b, side) == IF side = BUY THEN b.bids ELSE b.asks

C32_IndexResolves(b) ==
    \A order_id \in DOMAIN b.orders_by_id :
        LET loc == b.orders_by_id[order_id]
        IN  /\ has_level(b, loc[1], loc[2])
            /\ level_has(get_level(b, loc[1], loc[2]), order_id)

C32_RestingIndexed(b) ==
    \A side \in Sides : \A price \in DOMAIN C32_Levels(b, side) :
        \A i \in 1..Len(C32_Levels(b, side)[price]) :
            LET o == C32_Levels(b, side)[price][i]
            IN  /\ o.order_id \in DOMAIN b.orders_by_id
                /\ b.orders_by_id[o.order_id] = <<side, price>>
                /\ o.side = side
                /\ o.price = price

C32_FilledGone(b, st) ==
    \A order_id \in DOMAIN st.orders :
        st.orders[order_id].remaining = 0 => ~InBook(b, order_id)

C33_Ladder(b, side) == IF side = BUY THEN b.bid_prices ELSE b.ask_prices

C33_LadderAgrees(b, side) ==
    /\ \A i, k \in 1..Len(C33_Ladder(b, side)) :
          i < k => C33_Ladder(b, side)[i] < C33_Ladder(b, side)[k]
    /\ {C33_Ladder(b, side)[i] : i \in 1..Len(C33_Ladder(b, side))}
          = DOMAIN C32_Levels(b, side)

C35_Remainder(l) == l.command.qty - SumQty(Trades(l.events))

C35_NoneCrosses(b, command) ==
    \A o \in Resting(b, Opposite(command.side)) :
        /\ command.kind = "PlaceLimit"
        /\ IF command.side = BUY THEN o.price > command.price
                                 ELSE o.price < command.price

C35_MarketWitness ==
    /\ last.command.kind = "PlaceMarket"
    /\ LastAccepted(last)
    /\ Len(Trades(last.events)) = 1
    /\ C35_Remainder(last) > 0
    /\ last.events[3].type = "OrderExpired"

\* ----------------------------------------------------------------- C36
\* C36: when submit returns, the record of an accepted IOC, FOK or market
\* order is Filled with remaining 0 or Expired, never Active; and an
\* accepted order with a remainder has exactly one OrderRested or
\* OrderExpired among the events of its command.
C36_MayNotRest(command) ==
    \/ command.kind = "PlaceMarket"
    \/ command.kind = "PlaceLimit" /\ command.tif \in {IOC, FOK}

C36_Outcomes(l) ==
    SelectSeq(l.events, LAMBDA e : /\ e.type \in {"OrderRested", "OrderExpired"}
                                   /\ e.order_id = l.command.order_id)

C37_NoLevel(b, price) ==
    /\ price \notin DOMAIN b.bids
    /\ price \notin DOMAIN b.asks
    /\ \A i \in 1..Len(b.bid_prices) : b.bid_prices[i] # price
    /\ \A i \in 1..Len(b.ask_prices) : b.ask_prices[i] # price

C37_MissingLevelFatal ==
    [][(/\ last'.command.kind = "cancel"
        /\ ~has_level(book, book.orders_by_id[last'.command.order_id][1],
                      book.orders_by_id[last'.command.order_id][2]))
         => /\ last'.exc = "RuntimeError"
            /\ C37_NoLevel(book, book.orders_by_id[last'.command.order_id][2])
                  => C37_NoLevel(book',
                         book.orders_by_id[last'.command.order_id][2])]_vars

\* ----------------------------------------------------------------- C38
\* C38: apply(TradeOccurred) updates each of the taker id and the maker id
\* that has a record, whether or not the other has one: remaining goes down
\* by the qty of the trade, not below 0, and an Active record whose
\* remaining is 0 becomes Filled.
C38_Traded(record, qty) ==
    [record EXCEPT
        !.remaining = Max(0, record.remaining - qty),
        !.status = IF Max(0, record.remaining - qty) = 0
                      /\ record.status = ACTIVE
                   THEN FILLED ELSE record.status]

C38_TradeIndependent ==
    [][LET event == last'.events[1]
       IN  event.type = "TradeOccurred" =>
             \A order_id \in {event.taker_order_id, event.maker_order_id} :
                 order_id \in DOMAIN state.orders =>
                     state'.orders[order_id]
                        = C38_Traded(state.orders[order_id], event.qty)]_vars

\* ----------------------------------------------------------------- C39
\* C39: apply(OrderCanceled) leaves the state as it was when the order has
\* no record or a record that is Filled, Expired or Canceled.
C39_CancelOnlyActive ==
    [][LET event == last'.events[1]
       IN  (/\ event.type = "OrderCanceled"
            /\ \/ event.order_id \notin DOMAIN state.orders
               \/ state.orders[event.order_id].status # ACTIVE)
             => state' = state]_vars

\* ----------------------------------------------------------------- C40
\* C40: apply(FundsCredited) adds the amount to the available balance of
\* the account and asset, and leaves the held balance and every other
\* balance as they were.
C40_CreditAdds ==
    [][LET event == last'.events[1]
       IN  event.type = "FundsCredited" =>
             \A a \in {"alice", "bob"} : \A asset \in Assets :
                 /\ C25_Balance(state'.accounts, a, asset)
                       = C25_Balance(state.accounts, a, asset)
                         + (IF a = event.account_id /\ asset = event.asset
                            THEN event.amount ELSE 0)
                 /\ C25_Balance(state'.accounts_held, a, asset)
                       = C25_Balance(state.accounts_held, a, asset)]_vars

====
